---- MODULE Spec2Model ----
(***************************************************************************)
(* Model of the personality-traits matcher: the four tools of              *)
(* src/src/traits_matcher_server.py (create_person, add_description,       *)
(* create_trait, find_matches), the two SQLite tables they use, and the    *)
(* stand-alone data-access objects of src/src/daos.py.                     *)
(*                                                                         *)
(* REAL columns and Python floats are modelled as exact rationals          *)
(* <<numerator, denominator>> in lowest terms with a positive denominator, *)
(* so that two equal values are the same tuple.  The doubles of the code   *)
(* are these rationals rounded; the rounding matters only where two        *)
(* distances are compared whose exact values are equal, and there the      *)
(* model allows every order the rounded values can take (roundings).       *)
(* Texts and trait names are sequences of one-character strings, so that   *)
(* lower() and split() are computed character by character.                *)
(***************************************************************************)
EXTENDS Integers, Sequences, FiniteSets, TLC

VARIABLES
    persons,    \* table persons of mcp_persons.db: rows in rowid (insertion) order
    traits,     \* table traits of mcp_traits.db: trait name -> row
    last,       \* the last call: operation, arguments, outcome and returned value
    observed,   \* history: per person name, sum and number of the trait
                \* observations that successful add_description calls recognized
    ranked,     \* the rankings find_matches has returned on the present content
                \* of the two tables, where the rounding of the doubles decides
                \* the order: a set of [target, result]
    inflight    \* per request of two server processes on the same database
                \* files: how far its add_description or create_person
                \* has run, and its locals

vars == <<persons, traits, last, observed, ranked, inflight>>

(***************************************************************************)
(* Bounds of the model.                                                    *)
(***************************************************************************)
\* most trait observations recorded for one person
MaxObs == 3

\* person names the callers use
Names == {"ann", "bob"}

\* person names the callers use at the edge of the input space
EdgeNames == {"", "ann"}

\* every person name of the model
AllNames == Names \cup EdgeNames

\* trait names the callers use
TraitNames == {<<"a", "b">>, <<"b", "a">>}

\* (friendliness, dominance) pairs the callers pass to create_trait
TraitInputs == {<<9, 6>>, <<-10, 10>>, <<11, 0>>, <<0, -11>>}

\* descriptions and job descriptions the callers pass:
\* "ab", "Ab  ba", "ab bb ab", "bb"
Texts == { <<"a", "b">>,
           <<"A", "b", " ", " ", "b", "a">>,
           <<"a", "b", " ", "b", "b", " ", "a", "b">>,
           <<"b", "b">> }

(***************************************************************************)
(* Float arithmetic, as exact rationals.                                   *)
(***************************************************************************)
Abs(x) == IF x < 0 THEN -x ELSE x

RECURSIVE GCD(_, _)
GCD(a, b) == IF b = 0 THEN a ELSE GCD(b, a % b)

\* the rational n/d in lowest terms, d # 0
Rat(n, d) ==
    LET g == GCD(Abs(n), Abs(d))
        s == IF d < 0 THEN -1 ELSE 1
    IN  <<(s * n) \div g, (s * d) \div g>>

FromInt(i) == <<i, 1>>
Zero == FromInt(0)

RatAdd(x, y) == Rat(x[1] * y[2] + y[1] * x[2], x[2] * y[2])
RatSub(x, y) == Rat(x[1] * y[2] - y[1] * x[2], x[2] * y[2])
RatMul(x, y) == Rat(x[1] * y[1], x[2] * y[2])
RatDiv(x, y) == Rat(x[1] * y[2], x[2] * y[1])
RatLeq(x, y) == x[1] * y[2] <= y[1] * x[2]

(***************************************************************************)
(* Text: str.lower() and str.split().                                      *)
(***************************************************************************)
lower_char(c) ==
    CASE c = "A" -> "a"
      [] c = "B" -> "b"
      [] OTHER -> c

\* a lower() that is left out
lower_none(s) == s

lower(s) == [i \in 1..Len(s) |-> lower_char(s[i])]

is_space(c) == c = " "

\* the positions of s at which a word starts: a character that is not
\* whitespace, at the start of s or behind a whitespace character
word_starts(s) ==
    {i \in 1..Len(s) : ~is_space(s[i]) /\ (i = 1 \/ is_space(s[i - 1]))}

\* the position at which the word that starts at i ends
word_end(s, i) ==
    CHOOSE j \in i..Len(s) :
        /\ j = Len(s) \/ is_space(s[j + 1])
        /\ \A k \in i..j : ~is_space(s[k])

\* split(s): the maximal runs of non-whitespace characters of s, left to right
split(s) ==
    LET starts == word_starts(s)
        nth(n) == CHOOSE i \in starts : Cardinality({j \in starts : j < i}) = n - 1
    IN  [n \in 1..Cardinality(starts) |-> SubSeq(s, nth(n), word_end(s, nth(n)))]

(***************************************************************************)
(* The data-access objects of the server.                                  *)
(***************************************************************************)
\* SELECT * FROM persons WHERE person=?: the rows found, none or one
get_person(ps, name) == SelectSeq(ps, LAMBDA r : r.person = name)

\* SELECT * FROM persons: every row, in rowid order
get_all(ps) == ps

\* an insert that starts the observation counts at 1
add_person_counted(ps, name) ==
    Append(ps, [person |-> name, friendliness |-> Zero, dominance |-> Zero,
                n_friendliness |-> 1, n_dominance |-> 1])

\* INSERT INTO persons ... VALUES (name, 0.0, 0.0, 0, 0)
add_person(ps, name) ==
    Append(ps, [person |-> name, friendliness |-> Zero, dominance |-> Zero,
                n_friendliness |-> 0, n_dominance |-> 0])

\* UPDATE persons SET ... WHERE person=?: rewrites the rows named name,
\* and nothing when there is none
update_personality(ps, name, f, d, nf, nd) ==
    [i \in 1..Len(ps) |->
        IF ps[i].person = name
        THEN [person |-> name, friendliness |-> f, dominance |-> d,
              n_friendliness |-> nf, n_dominance |-> nd]
        ELSE ps[i]]

\* SELECT * FROM traits WHERE trait=?: the rows found, none or one
get_trait(ts, name) ==
    IF name \in DOMAIN ts THEN <<ts[name]>> ELSE <<>>

\* INSERT INTO traits VALUES (name, friendliness, dominance)
add_trait(ts, name, f, d) ==
    (name :> [friendliness |-> f, dominance |-> d]) @@ ts

\* the requests of the two server processes, and a request not yet received
Requests == {1, 2}

idle == [pc |-> "idle", person |-> "", text |-> <<>>, row |-> <<>>, words |-> <<>>,
         trait |-> <<>>]

(***************************************************************************)
(* The outcome of a call.                                                  *)
(***************************************************************************)
\* scores holds the (friendliness, dominance) passed to create_trait, and is
\* empty for the other calls
Call(op, person, text, status, result) ==
    [op |-> op, person |-> person, text |-> text, status |-> status, result |-> result,
     scores |-> <<>>]

\* a call that has changed a table leaves no ranking to be repeated: the
\* counts of a row only grow and no row is ever deleted, so that the content
\* of before does not come back
forget_rankings ==
    ranked' = IF persons' = persons /\ traits' = traits THEN ranked ELSE {}

Init ==
    /\ persons = <<>>
    /\ traits = <<>>
    /\ last = Call("none", "", <<>>, "ok", <<>>)
    /\ observed = [n \in AllNames |-> [friendliness |-> Zero, dominance |-> Zero, n |-> 0]]
    /\ ranked = {}
    /\ inflight = [r \in Requests |-> idle]

(***************************************************************************)
(* create_person                                                           *)
(***************************************************************************)
\* a create_person that replaces the row of a name that is present
\* (INSERT OR REPLACE, no look-up first)
create_person_tool_replace(name) ==
    /\ persons' = IF get_person(persons, name) # <<>>
                  THEN update_personality(persons, name, Zero, Zero, 0, 0)
                  ELSE add_person(persons, name)
    /\ last' = Call("create_person", name, <<>>, "ok", <<>>)
    /\ UNCHANGED <<traits, observed, inflight>>
    /\ forget_rankings

create_person_tool(name) ==
    IF get_person(persons, name) # <<>>
    THEN /\ last' = Call("create_person", name, <<>>, "ValueError", <<>>)
         /\ UNCHANGED <<persons, traits, observed, inflight, ranked>>
    ELSE /\ persons' = add_person(persons, name)
         /\ last' = Call("create_person", name, <<>>, "ok", <<>>)
         /\ UNCHANGED <<traits, observed, inflight>>
         /\ forget_rankings

CreatePerson == \E name \in Names : create_person_tool(name)

(***************************************************************************)
(* add_description                                                         *)
(***************************************************************************)
\* an update that stores the sum of the observations, not divided by
\* their number
new_friendliness_sum(person, trait) ==
    RatAdd(RatMul(person.friendliness, FromInt(person.n_friendliness)), trait.friendliness)

\* the running-mean formulas of the update, from the row `person` read
\* before the loop and the trait found for the word
new_friendliness(person, trait) ==
    RatDiv(RatAdd(RatMul(person.friendliness, FromInt(person.n_friendliness)),
                  trait.friendliness),
           FromInt(person.n_friendliness + 1))

new_dominance(person, trait) ==
    RatDiv(RatAdd(RatMul(person.dominance, FromInt(person.n_dominance)),
                  trait.dominance),
           FromInt(person.n_dominance + 1))

new_n_friendliness(person) == person.n_friendliness + 1

\* a dominance count that the update forgets to raise
new_n_dominance_stuck(person) == person.n_dominance

new_n_dominance(person) == person.n_dominance + 1

\* the body of the loop for a word that names a trait: one update_personality
\* call, computed from `person`
apply_trait(ps, name, person, trait) ==
    update_personality(ps, name,
                       new_friendliness(person, trait), new_dominance(person, trait),
                       new_n_friendliness(person), new_n_dominance(person))

\* a loop that updates for every word, counting a word that names no trait
\* as an observation of (0.0, 0.0)
RECURSIVE update_words_every(_, _, _, _, _)
update_words_every(ps, ts, name, person, words) ==
    IF words = <<>>
    THEN ps
    ELSE LET trait == get_trait(ts, Head(words))
         IN  update_words_every(
                 apply_trait(ps, name, person,
                             IF trait # <<>> THEN trait[1]
                             ELSE [friendliness |-> Zero, dominance |-> Zero]),
                 ts, name, person, Tail(words))

\* for word in words: ...; `person` is the row read before the loop
RECURSIVE update_words(_, _, _, _, _)
update_words(ps, ts, name, person, words) ==
    IF words = <<>>
    THEN ps
    ELSE LET trait == get_trait(ts, Head(words))
         IN  IF trait # <<>>
             THEN update_words(apply_trait(ps, name, person, trait[1]),
                               ts, name, person, Tail(words))
             ELSE update_words(ps, ts, name, person, Tail(words))

\* the words of a text that name a stored trait, with repetitions, in order
recognized(ts, text) ==
    SelectSeq(split(lower(text)), LAMBDA w : get_trait(ts, w) # <<>>)

\* the history after the observations ws are added to the record h
RECURSIVE observe(_, _, _)
observe(h, ts, ws) ==
    IF ws = <<>>
    THEN h
    ELSE observe([friendliness |-> RatAdd(h.friendliness, ts[Head(ws)].friendliness),
                  dominance |-> RatAdd(h.dominance, ts[Head(ws)].dominance),
                  n |-> h.n + 1],
                 ts, Tail(ws))

\* an add_description that does not look the person up first and starts a
\* record for a name that is not stored
add_description_tool_upsert(name, description) ==
    LET ps == IF get_person(persons, name) = <<>>
              THEN add_person(persons, name) ELSE persons
        words == split(lower(description))
    IN  /\ persons' = update_words(ps, traits, name, get_person(ps, name)[1], words)
        /\ observed' = [observed EXCEPT
                          ![name] = observe(@, traits, recognized(traits, description))]
        /\ last' = Call("add_description", name, description, "ok", <<>>)
        /\ UNCHANGED <<traits, inflight>>
        /\ forget_rankings

add_description_tool(name, description) ==
    LET person == get_person(persons, name)
    IN  IF person = <<>>
        THEN /\ last' = Call("add_description", name, description, "ValueError", <<>>)
             /\ UNCHANGED <<persons, traits, observed, inflight, ranked>>
        ELSE LET words == split(lower(description))
             IN  /\ persons' = update_words(persons, traits, name, person[1], words)
                 /\ observed' = [observed EXCEPT
                                   ![name] = observe(@, traits, recognized(traits, description))]
                 /\ last' = Call("add_description", name, description, "ok", <<>>)
                 /\ UNCHANGED <<traits, inflight>>
                 /\ forget_rankings

AddDescription ==
    \E name \in Names, description \in Texts :
        /\ observed[name].n + Len(recognized(traits, description)) <= MaxObs
        /\ add_description_tool(name, description)

(***************************************************************************)
(* create_trait                                                            *)
(***************************************************************************)
ScoreMin == -10
ScoreMax == 10

\* the outcome of a create_trait call
TraitCall(name, friendliness, dominance, status) ==
    [Call("create_trait", "", name, status, <<>>) EXCEPT !.scores = <<friendliness, dominance>>]

\* a range check that forgets the upper limit
score_in_range_no_upper(x) == ScoreMin <= x

\* Field(ge=-10, le=10) of the tool's friendliness and dominance parameters
score_in_range(x) == ScoreMin <= x /\ x <= ScoreMax

\* a create_trait that replaces the row of a name that is present
\* (INSERT OR REPLACE, no look-up first)
create_trait_tool_replace(name, friendliness, dominance) ==
    /\ traits' = add_trait(traits, name, FromInt(friendliness), FromInt(dominance))
    /\ last' = TraitCall(name, friendliness, dominance, "ok")
    /\ UNCHANGED <<persons, observed, inflight>>
    /\ forget_rankings

\* the body of create_trait_tool, as a direct call of the coroutine runs it:
\* look-up, ValueError for a name that is present, add_trait
create_trait_tool(name, friendliness, dominance) ==
    IF get_trait(traits, name) # <<>>
    THEN /\ last' = TraitCall(name, friendliness, dominance, "ValueError")
         /\ UNCHANGED <<persons, traits, observed, inflight, ranked>>
    ELSE /\ traits' = add_trait(traits, name, FromInt(friendliness), FromInt(dominance))
         /\ last' = TraitCall(name, friendliness, dominance, "ok")
         /\ UNCHANGED <<persons, observed, inflight>>
         /\ forget_rankings

\* the tool create_trait as the server runs it for a request: the arguments
\* are validated against the Field(ge, le) of the signature, then the body runs
create_trait(name, friendliness, dominance) ==
    IF ~(score_in_range(friendliness) /\ score_in_range(dominance))
    THEN /\ last' = TraitCall(name, friendliness, dominance, "ValidationError")
         /\ UNCHANGED <<persons, traits, observed, inflight, ranked>>
    ELSE create_trait_tool(name, friendliness, dominance)

CreateTrait ==
    \E name \in TraitNames, fd \in TraitInputs : create_trait(name, fd[1], fd[2])

(***************************************************************************)
(* find_matches                                                            *)
(***************************************************************************)
NoMatching == "No matching persons were found"

One == FromInt(1)

\* a loop that adds an item for every occurrence of a word that names a
\* trait, so that a repeated word weighs as often as it occurs
RECURSIVE trait_weights_counting(_, _, _)
trait_weights_counting(ts, words, items) ==
    IF words = <<>>
    THEN items
    ELSE LET w == Head(words)
         IN  IF get_trait(ts, w) # <<>>
             THEN trait_weights_counting(ts, Tail(words), Append(items, <<w, One>>))
             ELSE trait_weights_counting(ts, Tail(words), items)

\* the dict trait_weights after the loop: its (word, weight) items in
\* insertion order, one per distinct word that names a trait
RECURSIVE trait_weights_from(_, _, _)
trait_weights_from(ts, words, items) ==
    IF words = <<>>
    THEN items
    ELSE LET w == Head(words)
         IN  IF get_trait(ts, w) # <<>> /\ ~(\E i \in 1..Len(items) : items[i][1] = w)
             THEN trait_weights_from(ts, Tail(words), Append(items, <<w, One>>))
             ELSE trait_weights_from(ts, Tail(words), items)

trait_weights(ts, text) == trait_weights_from(ts, split(lower(text)), <<>>)

\* sum(...) over a sequence of rationals
RECURSIVE sum(_)
sum(xs) == IF xs = <<>> THEN Zero ELSE RatAdd(Head(xs), sum(Tail(xs)))

avg_friendliness(ts, items) ==
    RatDiv(sum([i \in 1..Len(items) |-> RatMul(ts[items[i][1]].friendliness, items[i][2])]),
           sum([i \in 1..Len(items) |-> items[i][2]]))

avg_dominance(ts, items) ==
    RatDiv(sum([i \in 1..Len(items) |-> RatMul(ts[items[i][1]].dominance, items[i][2])]),
           sum([i \in 1..Len(items) |-> items[i][2]]))

\* the exact square of the distance between (pf, pd) and (tf, td)
euclidean_sq(pf, pd, tf, td) ==
    RatAdd(RatMul(RatSub(pf, tf), RatSub(pf, tf)), RatMul(RatSub(pd, td), RatSub(pd, td)))

\* a rational that a double holds exactly: its denominator is a power of two
RECURSIVE power_of_two(_)
power_of_two(n) == n = 1 \/ (n % 2 = 0 /\ power_of_two(n \div 2))

representable(q) == power_of_two(q[2])

\* a row whose two doubles are the rationals of the model
exact_row(p) == representable(p.friendliness) /\ representable(p.dominance)

\* a row whose doubles are the rationals of the model rounded once, so that
\* rows with the same rationals hold the same doubles.  add_description
\* computes new = (old*n + t) / (n + 1); for integer trait scores old*n is
\* an integer m with old = fl(m/n), and fl(n * fl(m/n)) = m as long as n is
\* a sum of two powers of two, which 7 is the first count not to be.
faithful_row(p) == p.n_friendliness <= 7 /\ p.n_dominance <= 7

\* two rows for which distance.euclidean surely returns the same double:
\* the rows hold the same doubles, or nothing is rounded on the way to the
\* two sums of squares, which are equal
same_distance(p, q, tf, td) ==
    /\ faithful_row(p)
    /\ faithful_row(q)
    /\ \/ p.friendliness = q.friendliness /\ p.dominance = q.dominance
       \/ /\ exact_row(p)
          /\ exact_row(q)
          /\ representable(tf)
          /\ representable(td)
          /\ euclidean_sq(p.friendliness, p.dominance, tf, td)
                = euclidean_sq(q.friendliness, q.dominance, tf, td)

\* a row whose exact distance is that of another row, while the doubles of
\* the two distances may differ in their last digits
open_tie(ps, i, tf, td) ==
    \E j \in 1..Len(ps) :
        /\ j # i
        /\ euclidean_sq(ps[i].friendliness, ps[i].dominance, tf, td)
              = euclidean_sq(ps[j].friendliness, ps[j].dominance, tf, td)
        /\ ~same_distance(ps[i], ps[j], tf, td)

\* what the rounding of the subtraction, of the squares and of the norm can
\* do to the distances: per row, the double is below (-1), at (0) or above (1)
\* the exact value, by less than any difference between two exact values.
\* Only a row in an open tie is given a side, and rows that surely have
\* the same double are given the same side.
roundings(ps, tf, td) ==
    LET open == IF /\ representable(tf)
                      /\ representable(td)
                      /\ \A i \in 1..Len(ps) : exact_row(ps[i]) /\ faithful_row(ps[i])
                   THEN {}
                   ELSE {i \in 1..Len(ps) : open_tie(ps, i, tf, td)}
    IN  IF open = {}
        THEN {[i \in 1..Len(ps) |-> 0]}
        ELSE {[i \in 1..Len(ps) |-> IF i \in open THEN side[i] ELSE 0] :
                 side \in {f \in [open -> {-1, 0, 1}] :
                              \A i, j \in open :
                                 same_distance(ps[i], ps[j], tf, td) => f[i] = f[j]}}

\* distance.euclidean((pf, pd), (tf, td)) as far as sorting goes: the exact
\* square, which orders as the distance does, and the side of the rounding
euclidean(pf, pd, tf, td, side) == <<euclidean_sq(pf, pd, tf, td), side>>

\* x <= y for two such distances
FloatLeq(x, y) == IF x[1] = y[1] THEN x[2] <= y[2] ELSE RatLeq(x[1], y[1])

\* the list distances: (name, dist) per person, in retrieval order
distances(ps, tf, td, nudge) ==
    [i \in 1..Len(ps) |->
        <<ps[i].person, euclidean(ps[i].friendliness, ps[i].dominance, tf, td, nudge[i])>>]

\* the comparison of a sort in descending order (reverse=True)
goes_before_descending(x, y) == FloatLeq(y[2], x[2])

\* a comparison that lets an item met later pass the items of equal key
goes_before_strict(x, y) == ~FloatLeq(y[2], x[2])

\* the key comparison of sorted(): x goes before y, met later, unless y is smaller
goes_before(x, y) == FloatLeq(x[2], y[2])

\* item put into an ascending list behind every element that goes before it
RECURSIVE insert(_, _)
insert(xs, item) ==
    IF xs = <<>>
    THEN <<item>>
    ELSE IF goes_before(Head(xs), item)
         THEN <<Head(xs)>> \o insert(Tail(xs), item)
         ELSE <<item>> \o xs

\* sorted(distances, key=lambda x: x[1]): a stable ascending sort
RECURSIVE sorted_from(_, _)
sorted_from(xs, out) ==
    IF xs = <<>> THEN out ELSE sorted_from(Tail(xs), insert(out, Head(xs)))

sorted(xs) == sorted_from(xs, <<>>)

\* a ranking cut down to the nearest person
matches_nearest(ps, tf, td, nudge) ==
    LET s == sorted(distances(get_all(ps), tf, td, nudge))
    IN  IF s = <<>> THEN <<>> ELSE <<s[1][1]>>

\* the names of the persons, nearest to the target first
matches(ps, tf, td, nudge) ==
    LET s == sorted(distances(get_all(ps), tf, td, nudge))
    IN  [i \in 1..Len(s) |-> s[i][1]]

\* the lists find_matches can return for a target: one per way the rounding
\* can fall
rankings(ps, tf, td) == {matches(ps, tf, td, nudge) : nudge \in roundings(get_all(ps), tf, td)}

\* the ranking returned before for the target, on the present tables
ranked_for(tf, td) == {e \in ranked : e.target = <<tf, td>>}

find_matches_tool(job_description) ==
    \* each local of the tool is bound once, as the code computes it once
    \E items \in {trait_weights(traits, job_description)} :
        IF items = <<>>
        THEN \* Personality(0.0, 0.0): the model takes keyword arguments only
             /\ last' = Call("find_matches", "", job_description, "TypeError", <<>>)
             /\ UNCHANGED <<persons, traits, observed, inflight, ranked>>
        ELSE \E tf \in {avg_friendliness(traits, items)}, td \in {avg_dominance(traits, items)} :
             \E open \in {rankings(persons, tf, td)} :
                \E m \in open :
                    \* the same doubles give the same list as before
                    /\ \A e \in ranked_for(tf, td) : e.result = m
                    /\ last' = Call("find_matches", "", job_description, "ok",
                                    IF m = <<>> THEN <<NoMatching>> ELSE m)
                    /\ ranked' = IF Cardinality(open) > 1
                                 THEN ranked \cup {[target |-> <<tf, td>>, result |-> m]}
                                 ELSE ranked
                    /\ UNCHANGED <<persons, traits, observed, inflight>>

FindMatches == \E job_description \in Texts : find_matches_tool(job_description)

Next ==
    \/ CreatePerson
    \/ AddDescription
    \/ CreateTrait
    \/ FindMatches

Spec == Init /\ [][Next]_vars

(***************************************************************************)
(* The data-access objects called directly, as the tests of the stores do: *)
(* MCPPersonDAO of daos.py, and update_personality of the server's own     *)
(* MCPPersonDAO.  The trait store starts with two traits in it, as the     *)
(* populated stores of the tests do.                                       *)
(***************************************************************************)
\* (friendliness, dominance, n_friendliness, n_dominance) the callers pass
\* to update_personality
UpdateInputs == {<<7, 3, 5, 2>>}

\* daos.py add_person: the INSERT fails on a name that is present; the
\* sqlite3.IntegrityError leaves get_db_connection as a DatabaseError, which
\* add_person raises again as a DatabaseError, with nothing committed
dao_add_person(name) ==
    IF get_person(persons, name) # <<>>
    THEN /\ last' = Call("dao.add_person", name, <<>>, "DatabaseError", <<>>)
         /\ UNCHANGED <<persons, traits, observed, inflight, ranked>>
    ELSE /\ persons' = add_person(persons, name)
         /\ last' = Call("dao.add_person", name, <<>>, "ok", <<>>)
         /\ UNCHANGED <<traits, observed, inflight>>
         /\ forget_rankings

\* daos.py update_personality: rowcount == 0 raises before the commit
dao_update_personality(name, f, d, nf, nd) ==
    IF get_person(persons, name) = <<>>
    THEN /\ last' = Call("dao.update_personality", name, <<>>, "DatabaseError", <<>>)
         /\ UNCHANGED <<persons, traits, observed, inflight, ranked>>
    ELSE /\ persons' = update_personality(persons, name, f, d, nf, nd)
         /\ last' = Call("dao.update_personality", name, <<>>, "ok", <<>>)
         /\ UNCHANGED <<traits, observed, inflight>>
         /\ forget_rankings

\* the server's update_personality: UPDATE, commit, return
server_update_personality(name, f, d, nf, nd) ==
    /\ persons' = update_personality(persons, name, f, d, nf, nd)
    /\ last' = Call("server.update_personality", name, <<>>, "ok", <<>>)
    /\ UNCHANGED <<traits, observed, inflight>>
    /\ forget_rankings

\* the server's add_trait: the INSERT fails with sqlite3.IntegrityError on a
\* name that is present; nothing checks the scores
server_add_trait(name, friendliness, dominance) ==
    IF get_trait(traits, name) # <<>>
    THEN /\ last' = [Call("server.add_trait", "", name, "IntegrityError", <<>>)
                        EXCEPT !.scores = <<friendliness, dominance>>]
         /\ UNCHANGED <<persons, traits, observed, inflight, ranked>>
    ELSE /\ traits' = add_trait(traits, name, FromInt(friendliness), FromInt(dominance))
         /\ last' = [Call("server.add_trait", "", name, "ok", <<>>)
                        EXCEPT !.scores = <<friendliness, dominance>>]
         /\ UNCHANGED <<persons, observed, inflight>>
         /\ forget_rankings

\* daos.py add_trait: the sqlite3.IntegrityError is raised again as a
\* DatabaseError; nothing checks the scores
dao_add_trait(name, friendliness, dominance) ==
    IF get_trait(traits, name) # <<>>
    THEN /\ last' = [Call("dao.add_trait", "", name, "DatabaseError", <<>>)
                        EXCEPT !.scores = <<friendliness, dominance>>]
         /\ UNCHANGED <<persons, traits, observed, inflight, ranked>>
    ELSE /\ traits' = add_trait(traits, name, FromInt(friendliness), FromInt(dominance))
         /\ last' = [Call("dao.add_trait", "", name, "ok", <<>>)
                        EXCEPT !.scores = <<friendliness, dominance>>]
         /\ UNCHANGED <<persons, observed, inflight>>
         /\ forget_rankings

DaoAddPerson == \E name \in Names : dao_add_person(name)

\* scores that the trait writers are called with directly
DirectTraitInputs == {<<11, 0>>}

ServerAddTrait ==
    \E name \in TraitNames, fd \in DirectTraitInputs : server_add_trait(name, fd[1], fd[2])

DaoAddTrait ==
    \E name \in TraitNames, fd \in DirectTraitInputs : dao_add_trait(name, fd[1], fd[2])

\* await create_trait_tool(...): the coroutine called directly
CreateTraitDirect ==
    \E name \in TraitNames, fd \in DirectTraitInputs : create_trait_tool(name, fd[1], fd[2])

DaoUpdatePersonality ==
    \E name \in Names, u \in UpdateInputs :
        dao_update_personality(name, FromInt(u[1]), FromInt(u[2]), u[3], u[4])

ServerUpdatePersonality ==
    \E name \in Names, u \in UpdateInputs :
        server_update_personality(name, FromInt(u[1]), FromInt(u[2]), u[3], u[4])

\* the data-access objects on fresh database files, after create_tables and
\* one add_trait
InitDAO ==
    /\ persons = <<>>
    /\ traits = add_trait(<<>>, <<"a", "b">>, FromInt(9), FromInt(6))
    /\ last = Call("none", "", <<>>, "ok", <<>>)
    /\ observed = [n \in AllNames |-> [friendliness |-> Zero, dominance |-> Zero, n |-> 0]]
    /\ ranked = {}
    /\ inflight = [r \in Requests |-> idle]

NextDAO ==
    \/ CreatePerson
    \/ AddDescription
    \/ DaoAddPerson
    \/ DaoUpdatePersonality
    \/ ServerUpdatePersonality
    \/ ServerAddTrait
    \/ DaoAddTrait
    \/ CreateTraitDirect

SpecDAO == InitDAO /\ [][NextDAO]_vars

(***************************************************************************)
(* The tools and the persons://{name} resource at the edge of the input    *)
(* space: the empty person name, one-character words, trait names with an  *)
(* upper-case letter and repeated words; and the tools with texts of 1000  *)
(* and 1001 characters.  The trait store starts with four traits in it,    *)
(* each of which create_trait accepts.                                     *)
(***************************************************************************)
\* max_length of the description and job_description fields of the request
\* models of models.py
max_length == 1000

\* "ab" followed by spaces, n characters in all
padded(n) == [i \in 1..n |-> IF i = 1 THEN "a" ELSE IF i = 2 THEN "b" ELSE " "]

\* "a", "Ab", "ab ba ab"
EdgeTexts == { <<"a">>,
               <<"A", "b">>,
               <<"a", "b", " ", "b", "a", " ", "a", "b">> }

\* texts of max_length and of max_length + 1 characters
LongTexts == { padded(max_length), padded(max_length + 1) }

\* AddDescriptionRequest and FindMatchesRequest of models.py: the outcome of
\* building the request model for a text; the tools of the server do not
\* build them
AddDescriptionRequest(name, description) ==
    IF Len(description) <= max_length THEN "ok" ELSE "ValidationError"

FindMatchesRequest(company_name, job_description) ==
    IF Len(job_description) <= max_length THEN "ok" ELSE "ValidationError"

\* PersonModel(...): Field(ge=-10, le=10) of friendliness and dominance
PersonModel(name, friendliness, dominance) ==
    IF /\ RatLeq(FromInt(-10), friendliness) /\ RatLeq(friendliness, FromInt(10))
       /\ RatLeq(FromInt(-10), dominance) /\ RatLeq(dominance, FromInt(10))
    THEN <<[name |-> name, friendliness |-> friendliness, dominance |-> dominance]>>
    ELSE <<>>

\* the persons://{name} resource
get_person_resource(name) ==
    LET person_data == get_person(persons, name)
    IN  /\ IF person_data = <<>>
           THEN last' = Call("get_person_resource", name, <<>>, "ValueError", <<>>)
           ELSE LET person_model == PersonModel(person_data[1].person,
                                                person_data[1].friendliness,
                                                person_data[1].dominance)
                IN  IF person_model = <<>>
                    THEN last' = Call("get_person_resource", name, <<>>,
                                      "ValidationError", <<>>)
                    ELSE last' = Call("get_person_resource", name, <<>>, "ok",
                                      person_model)
        /\ UNCHANGED <<persons, traits, observed, inflight, ranked>>

CreatePersonEdge == \E name \in EdgeNames : create_person_tool(name)

AddDescriptionEdge ==
    \E name \in EdgeNames, description \in EdgeTexts :
        /\ observed[name].n + Len(recognized(traits, description)) <= MaxObs
        /\ add_description_tool(name, description)

FindMatchesEdge == \E job_description \in EdgeTexts : find_matches_tool(job_description)

GetPersonResource == \E name \in EdgeNames : get_person_resource(name)

InitEdge ==
    /\ persons = <<>>
    /\ traits = add_trait(add_trait(add_trait(add_trait(<<>>,
                    <<"a", "b">>, FromInt(9), FromInt(6)),
                    <<"b", "a">>, FromInt(-10), FromInt(10)),
                    <<"A", "b">>, FromInt(-10), FromInt(10)),
                    <<"a">>, FromInt(-10), FromInt(10))
    /\ last = Call("none", "", <<>>, "ok", <<>>)
    /\ observed = [n \in AllNames |-> [friendliness |-> Zero, dominance |-> Zero, n |-> 0]]
    /\ ranked = {}
    /\ inflight = [r \in Requests |-> idle]

NextEdge ==
    \/ CreatePersonEdge
    \/ AddDescriptionEdge
    \/ FindMatchesEdge
    \/ GetPersonResource

SpecEdge == InitEdge /\ [][NextEdge]_vars

AddDescriptionLong ==
    \E name \in Names, description \in LongTexts :
        /\ observed[name].n + Len(recognized(traits, description)) <= MaxObs
        /\ add_description_tool(name, description)

FindMatchesLong == \E job_description \in LongTexts : find_matches_tool(job_description)

NextLong ==
    \/ CreatePerson
    \/ AddDescriptionLong
    \/ FindMatchesLong

SpecLong == InitEdge /\ [][NextLong]_vars

(***************************************************************************)
(* add_description run by two server processes on the same database files. *)
(* Inside one process a tool runs to its end without an await; between     *)
(* processes the unit is one DAO call, which opens its own connection and  *)
(* commits on its own.                                                     *)
(***************************************************************************)
ConcTexts ==
    { <<"a", "b">>,
      <<"b", "a">>,
      <<"a", "b", " ", "b", "a">> }

\* a request for add_description(name, description) arrives
add_description_receive(r) ==
    /\ inflight[r].pc = "idle"
    /\ \E name \in Names, description \in ConcTexts :
          inflight' = [inflight EXCEPT ![r] =
                          [pc |-> "get_person", person |-> name, text |-> description,
                           row |-> <<>>, words |-> <<>>, trait |-> <<>>]]
    /\ UNCHANGED <<persons, traits, last, observed, ranked>>

\* person = person_dao.get_person(name); if not person: raise ValueError;
\* words = description.lower().split()
add_description_get_person(r) ==
    /\ inflight[r].pc = "get_person"
    /\ LET name == inflight[r].person
           person == get_person(persons, name)
       IN  IF person = <<>>
           THEN /\ last' = Call("add_description", name, inflight[r].text, "ValueError", <<>>)
                /\ inflight' = [inflight EXCEPT ![r].pc = "raised"]
           ELSE /\ inflight' = [inflight EXCEPT ![r].pc = "loop",
                                                ![r].row = person,
                                                ![r].words = split(lower(inflight[r].text))]
                /\ UNCHANGED last
    /\ UNCHANGED <<persons, traits, observed, ranked>>

\* for word in words: trait = trait_dao.get_trait(word); if trait: ...
add_description_get_trait(r) ==
    /\ inflight[r].pc = "loop"
    /\ inflight[r].words # <<>>
    /\ LET trait == get_trait(traits, Head(inflight[r].words))
       IN  IF trait # <<>>
           THEN inflight' = [inflight EXCEPT ![r].pc = "update", ![r].trait = trait]
           ELSE inflight' = [inflight EXCEPT ![r].words = Tail(@)]
    /\ UNCHANGED <<persons, traits, last, observed, ranked>>

\* an update that reads the person's row again, from the table, before it
\* computes the new values
add_description_update_personality_reread(r) ==
    /\ inflight[r].pc = "update"
    /\ LET name == inflight[r].person
       IN  /\ persons' = apply_trait(persons, name, get_person(persons, name)[1],
                                     inflight[r].trait[1])
           /\ observed' = [observed EXCEPT
                             ![name] = observe(@, traits, <<Head(inflight[r].words)>>)]
    /\ inflight' = [inflight EXCEPT ![r].pc = "loop", ![r].words = Tail(@), ![r].trait = <<>>]
    /\ UNCHANGED <<traits, last>>
    /\ forget_rankings

\* person_dao.update_personality(name, ...), computed from the row read
\* before the loop and the trait just found
add_description_update_personality(r) ==
    /\ inflight[r].pc = "update"
    /\ LET name == inflight[r].person
       IN  /\ persons' = apply_trait(persons, name, inflight[r].row[1], inflight[r].trait[1])
           /\ observed' = [observed EXCEPT
                             ![name] = observe(@, traits, <<Head(inflight[r].words)>>)]
    /\ inflight' = [inflight EXCEPT ![r].pc = "loop", ![r].words = Tail(@), ![r].trait = <<>>]
    /\ UNCHANGED <<traits, last>>
    /\ forget_rankings

\* return f"Description added to person '{name}'."
add_description_return(r) ==
    /\ inflight[r].pc = "loop"
    /\ inflight[r].words = <<>>
    /\ inflight' = [inflight EXCEPT ![r].pc = "returned"]
    /\ last' = Call("add_description", inflight[r].person, inflight[r].text, "ok", <<>>)
    /\ UNCHANGED <<persons, traits, observed, ranked>>

Receive == \E r \in Requests : add_description_receive(r)

GetPerson == \E r \in Requests : add_description_get_person(r)

GetTrait == \E r \in Requests : add_description_get_trait(r)

UpdatePersonality == \E r \in Requests : add_description_update_personality(r)

Return == \E r \in Requests : add_description_return(r)

\* one person and two traits stored, no request received yet
InitConc ==
    /\ persons = add_person(<<>>, "ann")
    /\ traits = (<<"a", "b">> :> [friendliness |-> FromInt(9), dominance |-> FromInt(6)])
                   @@ (<<"b", "a">> :> [friendliness |-> FromInt(-10), dominance |-> FromInt(10)])
    /\ last = Call("none", "", <<>>, "ok", <<>>)
    /\ observed = [n \in AllNames |-> [friendliness |-> Zero, dominance |-> Zero, n |-> 0]]
    /\ ranked = {}
    /\ inflight = [r \in Requests |-> idle]

NextConc == Receive \/ GetPerson \/ GetTrait \/ UpdatePersonality \/ Return

SpecConc == InitConc /\ [][NextConc]_vars

(***************************************************************************)
(* create_person run by two server processes on the same database files:   *)
(* the existence check and the insert are two DAO calls.                   *)
(***************************************************************************)
\* a request for create_person(name) arrives
create_person_receive(r) ==
    /\ inflight[r].pc = "idle"
    /\ \E name \in AllNames :
          inflight' = [inflight EXCEPT ![r] = [pc |-> "get_person", person |-> name,
                                               error |-> ""]]
    /\ UNCHANGED <<persons, traits, last, observed, ranked>>

\* if person_dao.get_person(name): raise ValueError
create_person_get_person(r) ==
    /\ inflight[r].pc = "get_person"
    /\ IF get_person(persons, inflight[r].person) # <<>>
       THEN /\ inflight' = [inflight EXCEPT ![r].pc = "raised", ![r].error = "ValueError"]
            /\ last' = Call("create_person", inflight[r].person, <<>>, "ValueError", <<>>)
       ELSE /\ inflight' = [inflight EXCEPT ![r].pc = "add_person"]
            /\ UNCHANGED last
    /\ UNCHANGED <<persons, traits, observed, ranked>>

\* an insert into a table without the primary key
create_person_add_person_unkeyed(r) ==
    /\ inflight[r].pc = "add_person"
    /\ persons' = add_person(persons, inflight[r].person)
    /\ inflight' = [inflight EXCEPT ![r].pc = "returned"]
    /\ last' = Call("create_person", inflight[r].person, <<>>, "ok", <<>>)
    /\ UNCHANGED <<traits, observed>>
    /\ forget_rankings

\* person_dao.add_person(name); return: the INSERT fails with
\* sqlite3.IntegrityError when the primary key person is already there
create_person_add_person(r) ==
    /\ inflight[r].pc = "add_person"
    /\ IF get_person(persons, inflight[r].person) # <<>>
       THEN /\ inflight' = [inflight EXCEPT ![r].pc = "raised", ![r].error = "IntegrityError"]
            /\ last' = Call("create_person", inflight[r].person, <<>>, "IntegrityError", <<>>)
            /\ UNCHANGED persons
       ELSE /\ persons' = add_person(persons, inflight[r].person)
            /\ inflight' = [inflight EXCEPT ![r].pc = "returned"]
            /\ last' = Call("create_person", inflight[r].person, <<>>, "ok", <<>>)
    /\ UNCHANGED <<traits, observed>>
    /\ forget_rankings

CreateReceive == \E r \in Requests : create_person_receive(r)

CreateGetPerson == \E r \in Requests : create_person_get_person(r)

CreateAddPerson == \E r \in Requests : create_person_add_person(r)

\* both tables empty, no request received yet
InitCreate ==
    /\ persons = <<>>
    /\ traits = <<>>
    /\ last = Call("none", "", <<>>, "ok", <<>>)
    /\ observed = [n \in AllNames |-> [friendliness |-> Zero, dominance |-> Zero, n |-> 0]]
    /\ ranked = {}
    /\ inflight = [r \in Requests |-> idle]

NextCreate == CreateReceive \/ CreateGetPerson \/ CreateAddPerson

SpecCreate == InitCreate /\ [][NextCreate]_vars

(***************************************************************************)
(* Properties.                                                             *)
(***************************************************************************)
\* the row of a person that is in the table
row(ps, name) == get_person(ps, name)[1]

\* the words of a text, none of which names a stored trait
no_token_matches(ts, text) ==
    \A i \in 1..Len(split(lower(text))) : split(lower(text))[i] \notin DOMAIN ts

\* C1: every stored person's friendliness and dominance are the unweighted
\* mean of all the trait observations made for it so far: friendliness times
\* the number of observations is the sum of the observed friendliness
\* values, and likewise for dominance.
C1_RunningMean ==
    \A i \in 1..Len(persons) :
        LET p == persons[i]
            h == observed[p.person]
        IN  /\ RatMul(p.friendliness, FromInt(h.n)) = h.friendliness
            /\ RatMul(p.dominance, FromInt(h.n)) = h.dominance

\* C2: a successful add_description whose text holds k occurrences of trait
\* words raises the person's n_friendliness and n_dominance by exactly k.
C2_OneUpdatePerWord ==
    [][ (last'.op = "add_description" /\ last'.status = "ok")
        => LET k == Len(recognized(traits, last'.text))
           IN  /\ row(persons', last'.person).n_friendliness
                     = row(persons, last'.person).n_friendliness + k
               /\ row(persons', last'.person).n_dominance
                     = row(persons, last'.person).n_dominance + k ]_vars

\* C3: in every state the four tools can reach, every stored person has
\* n_friendliness = n_dominance, and neither count is negative.
C3_CountsEqual ==
    \A i \in 1..Len(persons) :
        /\ persons[i].n_friendliness = persons[i].n_dominance
        /\ persons[i].n_friendliness >= 0
        /\ persons[i].n_dominance >= 0

\* C3 witness: a person updated by two add_description calls
C3_Witness ==
    /\ last.op = "add_description"
    /\ last.status = "ok"
    /\ \E i \in 1..Len(persons) :
          persons[i].person = last.person /\ persons[i].n_friendliness >= 2

\* C4: creating a person whose name is present fails, with ValueError from
\* create_person and DatabaseError from the add_person of daos.py, and the
\* table is what it was before the call.
C4_DuplicatePersonRejected ==
    [][ (/\ last'.op \in {"create_person", "dao.add_person"}
         /\ get_person(persons, last'.person) # <<>>)
        => /\ last'.status = (IF last'.op = "create_person"
                              THEN "ValueError" ELSE "DatabaseError")
           /\ persons' = persons ]_vars

\* C4 witness: a duplicate create_person refused for a person whose record
\* add_description has changed since its creation
C4_Witness ==
    /\ last.op = "create_person"
    /\ last.status = "ValueError"
    /\ observed[last.person].n > 0
    /\ row(persons, last.person).friendliness # Zero

\* C5: add_description for a name that is not in the table fails with
\* ValueError, and neither table changes.
C5_UnknownPersonRejected ==
    [][ (/\ last'.op = "add_description"
         /\ get_person(persons, last'.person) = <<>>)
        => /\ last'.status = "ValueError"
           /\ persons' = persons
           /\ traits' = traits ]_vars

\* C5 witness: add_description refused for an unknown name while another
\* person is stored and the description holds a trait word
C5_Witness ==
    /\ last.op = "add_description"
    /\ last.status = "ValueError"
    /\ persons # <<>>
    /\ recognized(traits, last.text) # <<>>

\* C6: update_personality for a name that is not in the table does not
\* report success, and the table is what it was before the call.
C6_UpdateUnknownFails ==
    [][ (/\ last'.op \in {"dao.update_personality", "server.update_personality"}
         /\ get_person(persons, last'.person) = <<>>)
        => /\ last'.status # "ok"
           /\ persons' = persons ]_vars

\* C7: add_description for a stored person with a description in which no
\* token names a trait reports success and leaves the table unchanged.
C7_NoTraitWordNoChange ==
    [][ (/\ last'.op = "add_description"
         /\ get_person(persons, last'.person) # <<>>
         /\ no_token_matches(traits, last'.text))
        => /\ last'.status = "ok"
           /\ persons' = persons ]_vars

\* C7 witness: such a call on a person whose record is not the default one,
\* with traits in the store
C7_Witness ==
    /\ last.op = "add_description"
    /\ last.status = "ok"
    /\ no_token_matches(traits, last.text)
    /\ DOMAIN traits # {}
    /\ row(persons, last.person).n_friendliness > 0

\* C8: find_matches on an empty person table returns normally a one-element
\* list that is not the "no matching persons" list, whatever the text.
C8_EmptyStoreSentinel ==
    (last.op = "find_matches" /\ persons = <<>>)
        => /\ last.status = "ok"
           /\ Len(last.result) = 1
           /\ last.result[1] # NoMatching

\* C9: find_matches with a text in which no token names a trait returns
\* normally and, when persons are stored, ranks all of them by their
\* distance from (0.0, 0.0).
C9_DefaultTarget ==
    (last.op = "find_matches" /\ no_token_matches(traits, last.text))
        => /\ last.status = "ok"
           /\ persons # <<>> => last.result \in rankings(persons, Zero, Zero)

\* the target of a text that names a trait, and the squared distance of a
\* stored person from it
target_friendliness(text) == avg_friendliness(traits, trait_weights(traits, text))
target_dominance(text) == avg_dominance(traits, trait_weights(traits, text))
distance_of(name, text) ==
    euclidean_sq(row(persons, name).friendliness, row(persons, name).dominance,
                 target_friendliness(text), target_dominance(text))

\* C10: the names find_matches returns are in ascending order of distance
\* from the target: a name that comes before another is not farther.
C10_AscendingDistance ==
    (last.op = "find_matches" /\ last.status = "ok" /\ persons # <<>>)
        => \A i, j \in 1..Len(last.result) :
              i < j => RatLeq(distance_of(last.result[i], last.text),
                              distance_of(last.result[j], last.text))

\* C10 witness: a person at distance 0 returned before one farther away that
\* the table holds first
C10_Witness ==
    /\ last.op = "find_matches"
    /\ last.status = "ok"
    /\ Len(last.result) = 2
    /\ last.result[1] = persons[2].person
    /\ distance_of(last.result[1], last.text) = Zero
    /\ distance_of(last.result[2], last.text) # Zero

\* C12: no step changes or removes a stored trait, and a create_trait for a
\* name that is present fails, with ValueError when its scores are valid,
\* whether or not they are the stored ones.
C12_TraitsImmutable ==
    [][ /\ \A t \in DOMAIN traits : t \in DOMAIN traits' /\ traits'[t] = traits[t]
        /\ (last'.op = "create_trait" /\ last'.text \in DOMAIN traits)
              => /\ last'.status # "ok"
                 /\ (/\ ScoreMin <= last'.scores[1] /\ last'.scores[1] <= ScoreMax
                     /\ ScoreMin <= last'.scores[2] /\ last'.scores[2] <= ScoreMax)
                       => last'.status = "ValueError" ]_vars

\* C12 witness: a second create_trait, with other scores than the stored
\* ones, refused with ValueError
C12_Witness ==
    /\ last.op = "create_trait"
    /\ last.status = "ValueError"
    /\ last.text \in DOMAIN traits
    /\ traits[last.text].friendliness # FromInt(last.scores[1])

\* C13: create_trait with a friendliness or dominance outside [-10, 10] ends
\* in a validation error and leaves the trait table unchanged; with both
\* scores in [-10, 10], the limits included, and a new name it stores exactly
\* these scores; so every stored trait has both scores in [-10, 10].
C13_ScoreRange ==
    [][ /\ last'.op = "create_trait"
           => LET f == last'.scores[1]
                  d == last'.scores[2]
                  valid == -10 <= f /\ f <= 10 /\ -10 <= d /\ d <= 10
              IN  /\ ~valid => (last'.status = "ValidationError" /\ traits' = traits)
                  /\ (valid /\ last'.text \notin DOMAIN traits)
                        => /\ last'.status = "ok"
                           /\ last'.text \in DOMAIN traits'
                           /\ traits'[last'.text] =
                                 [friendliness |-> FromInt(f), dominance |-> FromInt(d)]
        /\ \A t \in DOMAIN traits' :
              /\ RatLeq(FromInt(-10), traits'[t].friendliness)
              /\ RatLeq(traits'[t].friendliness, FromInt(10))
              /\ RatLeq(FromInt(-10), traits'[t].dominance)
              /\ RatLeq(traits'[t].dominance, FromInt(10)) ]_vars

\* C13 witness: a create_trait refused for a score out of range while a
\* trait created with the limits -10 and 10 is stored
C13_Witness ==
    /\ last.op = "create_trait"
    /\ last.status = "ValidationError"
    /\ \E t \in DOMAIN traits :
          traits[t] = [friendliness |-> FromInt(-10), dominance |-> FromInt(10)]

\* C17: a successful creation of a person, by create_person or by the
\* add_person of daos.py, adds one row for a name that had none, with
\* friendliness 0.0, dominance 0.0 and both counts 0, and a look-up of the
\* name then returns exactly that row.
C17_PersonDefaults ==
    [][ (last'.op \in {"create_person", "dao.add_person"} /\ last'.status = "ok")
        => LET fresh == [person |-> last'.person,
                         friendliness |-> <<0, 1>>, dominance |-> <<0, 1>>,
                         n_friendliness |-> 0, n_dominance |-> 0]
           IN  /\ get_person(persons, last'.person) = <<>>
               /\ persons' = Append(persons, fresh)
               /\ get_person(persons', last'.person) = <<fresh>> ]_vars

\* C17 witness: a person created beside one that add_description has changed
C17_Witness ==
    /\ last.op = "create_person"
    /\ last.status = "ok"
    /\ Len(persons) = 2
    /\ persons[1].n_friendliness > 0
    /\ persons[2] = [person |-> last.person,
                     friendliness |-> <<0, 1>>, dominance |-> <<0, 1>>,
                     n_friendliness |-> 0, n_dominance |-> 0]

\* the set of the words of a text that name a stored trait
matched_words(text) ==
    {w \in {split(lower(text))[i] : i \in 1..Len(split(lower(text)))} : w \in DOMAIN traits}

\* the sum of the friendliness, and of the dominance, of a set of stored traits
RECURSIVE friendliness_sum(_)
friendliness_sum(W) ==
    IF W = {} THEN Zero
    ELSE LET w == CHOOSE x \in W : TRUE
         IN  RatAdd(traits[w].friendliness, friendliness_sum(W \ {w}))

RECURSIVE dominance_sum(_)
dominance_sum(W) ==
    IF W = {} THEN Zero
    ELSE LET w == CHOOSE x \in W : TRUE
         IN  RatAdd(traits[w].dominance, dominance_sum(W \ {w}))

\* C11: the ranking find_matches returns is a ranking for the target that
\* is the unweighted mean over the set of distinct matched trait words,
\* however often a word occurs in the text, and the one that was returned
\* for that target before.
C11_TargetOverDistinctWords ==
    (last.op = "find_matches" /\ last.status = "ok" /\ persons # <<>>)
        => LET W == matched_words(last.text)
               tf == RatDiv(friendliness_sum(W), FromInt(Cardinality(W)))
               td == RatDiv(dominance_sum(W), FromInt(Cardinality(W)))
           IN  /\ W # {}
               /\ last.result \in rankings(persons, tf, td)
               /\ \A e \in ranked : e.target = <<tf, td>> => e.result = last.result

\* C11 witness: a ranking of two persons for a text with two trait words,
\* one of them repeated
C11_Witness ==
    /\ last.op = "find_matches"
    /\ last.status = "ok"
    /\ Len(persons) = 2
    /\ Cardinality(matched_words(last.text)) = 2
    /\ Len(recognized(traits, last.text)) = 3

\* C14: create_person with the empty name fails, and no stored person has
\* the empty name.
C14_EmptyNameRejected ==
    /\ \A i \in 1..Len(persons) : persons[i].person # ""
    /\ (last.op = "create_person" /\ last.person = "") => last.status = "ValueError"

\* C15: add_description and find_matches with a text of more than 1000
\* characters end in a validation error, and with a text of at most 1000
\* characters do not.
C15_TextLengthCapped ==
    /\ last.op = "add_description"
          => (last.status = "ValidationError"
                 <=> AddDescriptionRequest(last.person, last.text) = "ValidationError")
    /\ last.op = "find_matches"
          => (last.status = "ValidationError"
                 <=> FindMatchesRequest("", last.text) = "ValidationError")

\* C16: a read of persons://{name} never raises: it returns a value, and for
\* a stored name the value is the one-element array of the person's name,
\* friendliness and dominance.
C16_ResourceReadNeverRaises ==
    last.op = "get_person_resource"
        => /\ last.status = "ok"
           /\ get_person(persons, last.person) # <<>>
                 => last.result = <<[name |-> last.person,
                                     friendliness |-> row(persons, last.person).friendliness,
                                     dominance |-> row(persons, last.person).dominance]>>

\* the traits whose names have at least two characters
long_named(ts) == [w \in {x \in DOMAIN ts : Len(x) >= 2} |-> ts[w]]

\* C18: words of fewer than 2 characters are never looked up: add_description
\* changes a person as if no one-character trait were stored, and
\* find_matches that returns a ranking ranks for the target of the words of
\* at least 2 characters.
C18_ShortTokensDiscarded ==
    [][ /\ (last'.op = "add_description" /\ last'.status = "ok")
           => persons' = update_words(persons, long_named(traits), last'.person,
                                      row(persons, last'.person),
                                      split(lower(last'.text)))
        /\ (last'.op = "find_matches" /\ last'.status = "ok" /\ persons # <<>>)
           => LET items == trait_weights(long_named(traits), last'.text)
              IN  /\ items # <<>>
                  /\ last'.result \in rankings(persons,
                                               avg_friendliness(traits, items),
                                               avg_dominance(traits, items)) ]_vars

\* a word with every upper-case letter replaced by its lower-case letter
all_lowercase(w) ==
    [i \in 1..Len(w) |-> IF w[i] = "A" THEN "a" ELSE IF w[i] = "B" THEN "b" ELSE w[i]]

\* the words of a text, each in its all-lower-case form
lowercase_words(text) == [i \in 1..Len(split(text)) |-> all_lowercase(split(text)[i])]

\* the traits whose names hold no upper-case letter
lowercase_named(ts) == [w \in {x \in DOMAIN ts : all_lowercase(x) = x} |-> ts[w]]

\* C20: a trait whose stored name holds an upper-case letter is matched by
\* no text, and a word in any letter case matches the trait stored under its
\* all-lower-case form: add_description and find_matches act as they would
\* for the words in lower case on a store without the upper-case names.
C20_LowercaseLookup ==
    [][ /\ (last'.op = "add_description" /\ last'.status = "ok")
           => persons' = update_words(persons, lowercase_named(traits), last'.person,
                                      row(persons, last'.person),
                                      lowercase_words(last'.text))
        /\ last'.op = "find_matches"
           => LET ts == lowercase_named(traits)
                  items == trait_weights_from(ts, lowercase_words(last'.text), <<>>)
              IN  IF items = <<>>
                  THEN last'.status = "TypeError"
                  ELSE /\ last'.status = "ok"
                       /\ IF persons = <<>>
                          THEN last'.result = <<NoMatching>>
                          ELSE last'.result \in rankings(persons,
                                                         avg_friendliness(ts, items),
                                                         avg_dominance(ts, items)) ]_vars

\* C20 witness: add_description with the word "Ab", while traits named "Ab"
\* and "ab" are stored, has given a fresh person the scores of "ab"
C20_Witness ==
    /\ last.op = "add_description"
    /\ last.status = "ok"
    /\ last.text = <<"A", "b">>
    /\ {<<"A", "b">>, <<"a", "b">>} \subseteq DOMAIN traits
    /\ traits[<<"A", "b">>] # traits[<<"a", "b">>]
    /\ row(persons, last.person).n_friendliness = 1
    /\ row(persons, last.person).friendliness = traits[<<"a", "b">>].friendliness

\* C19: the write of a request is computed from the row the request read
\* before its loop, whatever the other request has written since: after the
\* write the person's counts are one more than the counts that were read, and
\* its scores are the running mean from the scores that were read.
C19_WriteFromRowReadAtStart ==
    [][\A r \in Requests :
          (inflight[r].pc = "update" /\ inflight'[r].pc = "loop")
          => LET was == inflight[r].row[1]
                 trait == inflight[r].trait[1]
                 now == row(persons', inflight[r].person)
             IN  /\ now.n_friendliness = was.n_friendliness + 1
                 /\ now.n_dominance = was.n_dominance + 1
                 /\ RatMul(now.friendliness, FromInt(now.n_friendliness))
                       = RatAdd(RatMul(was.friendliness, FromInt(was.n_friendliness)),
                                trait.friendliness)
                 /\ RatMul(now.dominance, FromInt(now.n_dominance))
                       = RatAdd(RatMul(was.dominance, FromInt(was.n_dominance)),
                                trait.dominance) ]_vars

\* C19 witness: two requests on the same person, each with one trait word,
\* have both returned with success, and the person has one observation
\* counted where two were accepted, and a friendliness that is not the mean
\* of the two
C19_Witness ==
    /\ \A r \in Requests :
          /\ inflight[r].pc = "returned"
          /\ inflight[r].person = "ann"
          /\ Len(recognized(traits, inflight[r].text)) = 1
    /\ observed["ann"].n = 2
    /\ row(persons, "ann").n_friendliness = 1
    /\ RatMul(row(persons, "ann").friendliness, FromInt(2)) # observed["ann"].friendliness

\* the place of a stored person in the rows the store returns
position(ps, name) == CHOOSE i \in 1..Len(ps) : ps[i].person = name

\* C21: find_matches is deterministic and stable: a call returns the list
\* that the call before it returned for the same job description, and that
\* any earlier call on the same tables returned for the same target, and of
\* two persons whose distances from the target are the same double the one
\* the store returned first comes first.
C21_DeterministicStable ==
    [][ (last'.op = "find_matches" /\ last'.status = "ok" /\ persons # <<>>)
        => /\ (last.op = "find_matches" /\ last.text = last'.text)
                 => (last'.status = last.status /\ last'.result = last.result)
           /\ \A e \in ranked :
                 e.target = <<target_friendliness(last'.text), target_dominance(last'.text)>>
                    => e.result = last'.result
           /\ \A i, j \in 1..Len(last'.result) :
                 (/\ i < j
                  /\ same_distance(row(persons, last'.result[i]), row(persons, last'.result[j]),
                                   target_friendliness(last'.text),
                                   target_dominance(last'.text)))
                 => position(persons, last'.result[i]) < position(persons, last'.result[j]) ]_vars

\* C21 witness: a ranking of two persons with different scores whose distances
\* from the target are the same double
C21_Witness ==
    /\ last.op = "find_matches"
    /\ last.status = "ok"
    /\ Len(persons) = 2
    /\ persons[1].friendliness # persons[2].friendliness
    /\ same_distance(persons[1], persons[2],
                     target_friendliness(last.text), target_dominance(last.text))
    /\ last.result = <<persons[1].person, persons[2].person>>

\* C22: every stored person's friendliness and dominance lie in [-10, 10],
\* so that PersonModel can be built for every stored person.
C22_PersonScoresInRange ==
    \A i \in 1..Len(persons) :
        /\ RatLeq(FromInt(ScoreMin), persons[i].friendliness)
        /\ RatLeq(persons[i].friendliness, FromInt(ScoreMax))
        /\ RatLeq(FromInt(ScoreMin), persons[i].dominance)
        /\ RatLeq(persons[i].dominance, FromInt(ScoreMax))
        /\ PersonModel(persons[i].person, persons[i].friendliness, persons[i].dominance) # <<>>

\* C22 witness: a person that has been described twice and holds the
\* lowest friendliness and the highest dominance there are
C22_Witness ==
    \E i \in 1..Len(persons) :
        /\ persons[i].n_friendliness >= 2
        /\ persons[i].friendliness = FromInt(ScoreMin)
        /\ persons[i].dominance = FromInt(ScoreMax)

\* C23: a find_matches call changes neither store, and when it returns
\* normally from a store that holds persons its result is a permutation of
\* the stored names: as long as the table, every stored name in it, every
\* name in it stored, and no name twice.
C23_ResultIsPermutation ==
    [][ last'.op = "find_matches"
        => /\ persons' = persons
           /\ traits' = traits
           /\ (last'.status = "ok" /\ persons # <<>>)
                 => /\ Len(last'.result) = Len(persons)
                    /\ {last'.result[i] : i \in 1..Len(last'.result)}
                          = {persons[i].person : i \in 1..Len(persons)}
                    /\ \A i, j \in 1..Len(last'.result) :
                          last'.result[i] = last'.result[j] => i = j ]_vars

\* C23 witness: a ranking of two stored persons in the reverse of the order
\* of the table
C23_Witness ==
    /\ last.op = "find_matches"
    /\ last.status = "ok"
    /\ Len(persons) = 2
    /\ last.result = <<persons[2].person, persons[1].person>>

\* the requests that have ended, with success or with an error
ended(r) == inflight[r].pc \in {"returned", "raised"}

\* C24: of the create_person requests for one name at most one returns with
\* success; when two requests for the same name have both ended, one has
\* returned and the other has raised; and the table holds at most one row
\* per name, exactly one once a request for it has returned, with the scores
\* 0.0 and the counts 0.
C24_OneCreateWins ==
    /\ \A name \in AllNames :
          /\ Cardinality({r \in Requests :
                             inflight[r].pc = "returned" /\ inflight[r].person = name}) <= 1
          /\ Len(get_person(persons, name)) <= 1
          /\ (\E r \in Requests : inflight[r].pc = "returned" /\ inflight[r].person = name)
                => /\ Len(get_person(persons, name)) = 1
                   /\ row(persons, name) = [person |-> name,
                                            friendliness |-> Zero, dominance |-> Zero,
                                            n_friendliness |-> 0, n_dominance |-> 0]
    /\ \A r, q \in Requests :
          (r # q /\ ended(r) /\ ended(q) /\ inflight[r].person = inflight[q].person)
             => {inflight[r].pc, inflight[q].pc} = {"returned", "raised"}

\* C24 witness: two requests for the same name have both passed the
\* existence check; one has returned, the other's insert has failed
C24_Witness ==
    \E r, q \in Requests :
        /\ inflight[r].pc = "returned"
        /\ inflight[q].pc = "raised"
        /\ inflight[q].error = "IntegrityError"
        /\ inflight[q].person = inflight[r].person
        /\ Len(get_person(persons, inflight[r].person)) = 1
====
